---------------------------- MODULE Spec2Model ----------------------------
(***************************************************************************)
(* Verification model of the graph-to-circuit orchestration layer of ezkl  *)
(* (src/src/graph/mod.rs): GraphSettings, GraphCircuit construction,       *)
(* witness / input loading, prepare_public_inputs, forward and calibrate.  *)
(*                                                                         *)
(* Collaborators that live outside src/src/graph/mod.rs (Model, Tensor,    *)
(* GraphModules, the eth client) are modelled from their contracts in      *)
(* spec.md; every such definition says so in its comment.                  *)
(***************************************************************************)
EXTENDS Integers, Sequences, FiniteSets, TLC

(***************************************************************************)
(* Program constants.                                                      *)
(***************************************************************************)
\* mod.rs:94
ASSUMED_BLINDING_FACTORS == 6

\* mod.rs:96-97, bn256::Fr::S - 2 with the doc comment "26"
MAX_PUBLIC_SRS == 26

(***************************************************************************)
(* Bounds of the model.                                                    *)
(***************************************************************************)
\* run_args.bits of a freshly constructed circuit ranges over 1..MaxInitBits
MaxInitBits == 28

\* the forward pass reports 2^k and 2^k + 1 for MinBigExp <= k <= MaxMliExp
MaxMliExp == 26

\* a calibrate() invocation is cut off after MaxPasses forward passes
MaxPasses == 28

\* run_args.logrows of a freshly constructed circuit
InitLogrows == 17

(***************************************************************************)
(* Small helpers.                                                          *)
(***************************************************************************)
Max(a, b) == IF a >= b THEN a ELSE b

Min(a, b) == IF a <= b THEN a ELSE b

RECURSIVE Product(_)
\* shape.iter().product::<usize>()
Product(shape) == IF shape = << >> THEN 1 ELSE Head(shape) * Product(Tail(shape))

RECURSIVE Flatten(_)
\* concatenation of a sequence of sequences
Flatten(ss) == IF ss = << >> THEN << >> ELSE Head(ss) \o Flatten(Tail(ss))

\* [f(s[1]), ..., f(s[n])]
MapSeq(f(_), s) == [i \in 1..Len(s) |-> f(s[i])]

\* `(x as f64).log2().ceil() as usize`: for x >= 1 the least k with 2^k >= x
\* (f64 is exact on the modelled range x < 2^31); log2 of 0 is -inf and of a
\* negative number NaN, and the cast to usize saturates both to 0.
CeilLog2(x) ==
    IF x <= 1 THEN 0
    ELSE CHOOSE k \in 1..30 : 2^k >= x /\ 2^(k - 1) < x

(***************************************************************************)
(* Visibility (RunArgs.{input,output,param}_visibility).                   *)
(***************************************************************************)
Visibilities == {"Public", "Private", "Hashed"}

\* Visibility::is_public
is_public(v) == v = "Public"

\* Visibility::requires_processing: the tensor goes through a module
requires_processing(v) == v = "Hashed"

(***************************************************************************)
(* Tensors: dims plus the row-major vector of field elements.              *)
(***************************************************************************)
\* Tensor::new(None, &shape): a placeholder of the shape's size
TensorNew(shape) == [dims |-> shape, inner |-> [i \in 1..Product(shape) |-> 0]]

\* t.len()
TensorLen(t) == Len(t.inner)

\* i.clone().into_iter().collect::<Vec<Fp>>()
TensorToVec(t) == t.inner

(***************************************************************************)
(* The Model collaborator (graph/model.rs, outside src/): its shapes, its  *)
(* constants and the number of rows its own constraints take.              *)
(***************************************************************************)
\* the constants of a model, as ValTensors: the j-th element of the i-th
\* constant is 10 * i + j; `held` names what holds the values (the model's
\* own constant, a known witness value, or the module layout that assigned
\* them to cells)
ConstTensors(shapes) ==
    [i \in 1..Len(shapes) |->
        [dims |-> shapes[i],
         inner |-> [j \in 1..Product(shapes[i]) |-> 10 * i + j],
         held |-> "const"]]

\* one input [1], one output [1], one constant parameter of shape [1]
SmallModel(n) ==
    [input_shapes |-> << <<1>> >>, output_shapes |-> << <<1>> >>,
     const_shapes |-> << <<1>> >>, consts |-> ConstTensors(<< <<1>> >>),
     num_constraints |-> n]

\* two inputs [1] and [2], one output [2], no constant
WideModel(n) ==
    [input_shapes |-> << <<1>>, <<2>> >>, output_shapes |-> << <<2>> >>,
     const_shapes |-> << >>, consts |-> << >>, num_constraints |-> n]

\* one input [1], one output [1], two constants of shapes [2] and [1]
ConstModel(n) ==
    [input_shapes |-> << <<1>> >>, output_shapes |-> << <<1>> >>,
     const_shapes |-> << <<2>>, <<1>> >>,
     consts |-> ConstTensors(<< <<2>>, <<1>> >>), num_constraints |-> n]

\* row counts of the models the calibration sweep starts from; the last two
\* straddle 2^MAX_PUBLIC_SRS - ASSUMED_BLINDING_FACTORS
ConstraintCounts ==
    {10, 58, 59, 2^MAX_PUBLIC_SRS - ASSUMED_BLINDING_FACTORS,
     2^MAX_PUBLIC_SRS - ASSUMED_BLINDING_FACTORS + 1}

\* what Model::forward can report as max_lookup_inputs (a maximum of
\* absolute values, so never negative)
MliValues ==
    {0, 1, 2, 3, 8, 9} \cup
    UNION {{2^k, 2^k + 1} : k \in (MaxMliExp - 3)..MaxMliExp}

\* the outcomes of Model::forward on one (model, inputs) pair
FwdResults ==
    {[ok |-> TRUE, max_lookup_inputs |-> m] : m \in MliValues} \cup
    {[ok |-> FALSE, max_lookup_inputs |-> 0]}

(***************************************************************************)
(* RunArgs and GraphSettings (mod.rs:117-133).                             *)
(***************************************************************************)
Scales == {7}

RunArgs(bits, logrows, scale, iv, ov, pv) ==
    [bits |-> bits, logrows |-> logrows, scale |-> scale,
     input_visibility |-> iv, output_visibility |-> ov, param_visibility |-> pv]

\* Model::instance_shapes: shapes of the public tensors, inputs before outputs
instance_shapes(m, run_args) ==
    (IF is_public(run_args.input_visibility) THEN m.input_shapes ELSE << >>) \o
    (IF is_public(run_args.output_visibility) THEN m.output_shapes ELSE << >>)

\* Model::gen_params: the settings the model derives for run_args; the row
\* count is the model's own
gen_params(m, run_args, check_mode) ==
    [run_args |-> run_args,
     num_constraints |-> m.num_constraints,
     model_instance_shapes |-> instance_shapes(m, run_args),
     model_output_scales |-> [i \in 1..Len(m.output_shapes) |-> run_args.scale],
     module_sizes |-> [max_constraints |-> 0, num_instances |-> << >>],
     required_lookups |-> << >>,
     check_mode |-> check_mode]

RECURSIVE SumProducts(_)
\* total element count of a list of shapes
SumProducts(shapes) ==
    IF shapes = << >> THEN 0
    ELSE Product(Head(shapes)) + SumProducts(Tail(shapes))

\* the classes, in slot order, that go through the hash module
HashedClasses(run_args) ==
    (IF requires_processing(run_args.input_visibility) THEN <<"input">> ELSE << >>) \o
    (IF requires_processing(run_args.param_visibility) THEN <<"params">> ELSE << >>) \o
    (IF requires_processing(run_args.output_visibility) THEN <<"output">> ELSE << >>)

\* GraphModules::num_constraints_and_instances: one instance cell per hashed
\* class in the hash module's slot, rows proportional to the hashed elements
num_constraints_and_instances(input_shapes, param_shapes, output_shapes, run_args) ==
    LET h == HashedClasses(run_args)
        rows ==
            (IF requires_processing(run_args.input_visibility)
             THEN SumProducts(input_shapes) ELSE 0) +
            (IF requires_processing(run_args.param_visibility)
             THEN SumProducts(param_shapes) ELSE 0) +
            (IF requires_processing(run_args.output_visibility)
             THEN SumProducts(output_shapes) ELSE 0)
    IN  [max_constraints |-> rows,
         num_instances |-> IF h = << >> THEN << >> ELSE << Len(h) >>]

\* GraphSettings::total_instances (mod.rs:137-146)
total_instances(s) ==
    MapSeq(Product, s.model_instance_shapes) \o s.module_sizes.num_instances

(***************************************************************************)
(* GraphCircuit (mod.rs:173-184) as a record of its fields.                *)
(***************************************************************************)
\* GraphCircuit::new (mod.rs:228-272)
GraphCircuit_new(m, run_args, check_mode) ==
    LET s == gen_params(m, run_args, check_mode)
        num_params == SumProducts(m.const_shapes)
        sizes == num_constraints_and_instances(
                     m.input_shapes, << <<num_params>> >>, m.output_shapes, run_args)
    IN  [model |-> m,
         inputs |-> MapSeq(TensorNew, m.input_shapes),
         outputs |-> << >>,
         settings |-> [s EXCEPT !.module_sizes = sizes,
                                !.num_constraints =
                                    Max(s.num_constraints, sizes.max_constraints)],
         module_settings |-> "default"]

\* GraphCircuit::new_from_settings (mod.rs:275-299)
GraphCircuit_new_from_settings(m, s, check_mode) ==
    [model |-> m,
     inputs |-> MapSeq(TensorNew, m.input_shapes),
     outputs |-> << >>,
     settings |-> [s EXCEPT !.check_mode = check_mode],
     module_settings |-> "default"]

(***************************************************************************)
(* The settings file (mod.rs:148-161): GraphSettings as the JSON document  *)
(* serde_json writes for the derived Serialize, and back.  A document is a *)
(* tree of numbers (their decimal digits), strings, arrays and objects     *)
(* (key/value pairs in field order).                                       *)
(***************************************************************************)
JNum(digits) == [t |-> "num", digits |-> digits, s |-> "", items |-> << >>]

JStr(str) == [t |-> "str", digits |-> << >>, s |-> str, items |-> << >>]

JArr(items) == [t |-> "arr", digits |-> << >>, s |-> "", items |-> items]

\* items are <<key, value>> pairs
JObj(fields) == [t |-> "obj", digits |-> << >>, s |-> "", items |-> fields]

\* what a lookup of an absent key yields
JMissing == [t |-> "missing", digits |-> << >>, s |-> "", items |-> << >>]

RECURSIVE ToDigits(_)
\* itoa: the decimal digits of an unsigned integer, most significant first
ToDigits(n) == IF n < 10 THEN <<n>> ELSE Append(ToDigits(n \div 10), n % 10)

RECURSIVE FromDigits(_)
\* the unsigned integer a run of decimal digits spells
FromDigits(d) ==
    IF d = << >> THEN 0
    ELSE 10 * FromDigits(SubSeq(d, 1, Len(d) - 1)) + d[Len(d)]

\* the value of field `key` of an object
JField(obj, key) ==
    IF obj.t = "obj" /\ \E i \in 1..Len(obj.items) : obj.items[i][1] = key
    THEN obj.items[CHOOSE i \in 1..Len(obj.items) : obj.items[i][1] = key][2]
    ELSE JMissing

SerNum(n) == JNum(ToDigits(n))

SerNums(ns) == JArr([i \in 1..Len(ns) |-> SerNum(ns[i])])

IsNum(j) == j.t = "num" /\ j.digits # << >>

IsNums(j) == j.t = "arr" /\ \A i \in 1..Len(j.items) : IsNum(j.items[i])

DeNums(j) == [i \in 1..Len(j.items) |-> FromDigits(j.items[i].digits)]

\* derive(Serialize) of RunArgs (commands.rs)
Serialize_RunArgs(ra) ==
    JObj(<< <<"scale", SerNum(ra.scale)>>,
            <<"bits", SerNum(ra.bits)>>,
            <<"logrows", SerNum(ra.logrows)>>,
            <<"input_visibility", JStr(ra.input_visibility)>>,
            <<"output_visibility", JStr(ra.output_visibility)>>,
            <<"param_visibility", JStr(ra.param_visibility)>> >>)

\* derive(Deserialize) of RunArgs: every field present and of its type
RunArgs_ok(j) ==
    /\ IsNum(JField(j, "scale")) /\ IsNum(JField(j, "bits"))
    /\ IsNum(JField(j, "logrows"))
    /\ \A k \in {"input_visibility", "output_visibility", "param_visibility"} :
        JField(j, k).t = "str" /\ JField(j, k).s \in Visibilities

Deserialize_RunArgs(j) ==
    RunArgs(FromDigits(JField(j, "bits").digits),
            FromDigits(JField(j, "logrows").digits),
            FromDigits(JField(j, "scale").digits),
            JField(j, "input_visibility").s,
            JField(j, "output_visibility").s,
            JField(j, "param_visibility").s)

\* derive(Serialize) of ModuleSizes (graph/modules.rs)
Serialize_ModuleSizes(ms) ==
    JObj(<< <<"max_constraints", SerNum(ms.max_constraints)>>,
            <<"num_instances", SerNums(ms.num_instances)>> >>)

ModuleSizes_ok(j) ==
    IsNum(JField(j, "max_constraints")) /\ IsNums(JField(j, "num_instances"))

Deserialize_ModuleSizes(j) ==
    [max_constraints |-> FromDigits(JField(j, "max_constraints").digits),
     num_instances |-> DeNums(JField(j, "num_instances"))]

\* the kinds of lookup table (circuit/lookup.rs); a LookupOp is a kind with
\* its integer parameter, written as {"<kind>": {"scale": n}}
LookupKinds == {"ReLU", "Div", "Sigmoid"}

Serialize_LookupOp(op) ==
    JObj(<< <<op.kind, JObj(<< <<"scale", SerNum(op.scale)>> >>)>> >>)

LookupOp_ok(j) ==
    /\ j.t = "obj" /\ Len(j.items) = 1
    /\ j.items[1][1] \in LookupKinds
    /\ IsNum(JField(j.items[1][2], "scale"))

Deserialize_LookupOp(j) ==
    [kind |-> j.items[1][1],
     scale |-> FromDigits(JField(j.items[1][2], "scale").digits)]

\* CheckMode (circuit/mod.rs), a unit-variant enum written as its name
CheckModes == {"SAFE", "UNSAFE"}

\* a GraphSettings written with required_lookups left out
Serialize_GraphSettings_skip(s) ==
    JObj(<< <<"run_args", Serialize_RunArgs(s.run_args)>>,
            <<"num_constraints", SerNum(s.num_constraints)>>,
            <<"model_instance_shapes",
              JArr([i \in 1..Len(s.model_instance_shapes) |->
                       SerNums(s.model_instance_shapes[i])])>>,
            <<"model_output_scales", SerNums(s.model_output_scales)>>,
            <<"module_sizes", Serialize_ModuleSizes(s.module_sizes)>>,
            <<"check_mode", JStr(s.check_mode)>> >>)

\* derive(Serialize) of GraphSettings (mod.rs:116-133): one key per field, in
\* declaration order
Serialize_GraphSettings(s) ==
    JObj(<< <<"run_args", Serialize_RunArgs(s.run_args)>>,
            <<"num_constraints", SerNum(s.num_constraints)>>,
            <<"model_instance_shapes",
              JArr([i \in 1..Len(s.model_instance_shapes) |->
                       SerNums(s.model_instance_shapes[i])])>>,
            <<"model_output_scales", SerNums(s.model_output_scales)>>,
            <<"module_sizes", Serialize_ModuleSizes(s.module_sizes)>>,
            <<"required_lookups",
              JArr([i \in 1..Len(s.required_lookups) |->
                       Serialize_LookupOp(s.required_lookups[i])])>>,
            <<"check_mode", JStr(s.check_mode)>> >>)

\* derive(Deserialize) of GraphSettings (mod.rs:116-133): every field is
\* present under its name and of its type
GraphSettings_ok(j) ==
    /\ j.t = "obj"
    /\ RunArgs_ok(JField(j, "run_args"))
    /\ IsNum(JField(j, "num_constraints"))
    /\ JField(j, "model_instance_shapes").t = "arr"
    /\ \A i \in 1..Len(JField(j, "model_instance_shapes").items) :
        IsNums(JField(j, "model_instance_shapes").items[i])
    /\ IsNums(JField(j, "model_output_scales"))
    /\ ModuleSizes_ok(JField(j, "module_sizes"))
    /\ JField(j, "required_lookups").t = "arr"
    /\ \A i \in 1..Len(JField(j, "required_lookups").items) :
        LookupOp_ok(JField(j, "required_lookups").items[i])
    /\ JField(j, "check_mode").t = "str"
    /\ JField(j, "check_mode").s \in CheckModes

\* derive(Deserialize) of GraphSettings (mod.rs:116-133)
Deserialize_GraphSettings(j) ==
    [run_args |-> Deserialize_RunArgs(JField(j, "run_args")),
     num_constraints |-> FromDigits(JField(j, "num_constraints").digits),
     model_instance_shapes |->
        [i \in 1..Len(JField(j, "model_instance_shapes").items) |->
            DeNums(JField(j, "model_instance_shapes").items[i])],
     model_output_scales |-> DeNums(JField(j, "model_output_scales")),
     module_sizes |-> Deserialize_ModuleSizes(JField(j, "module_sizes")),
     required_lookups |->
        [i \in 1..Len(JField(j, "required_lookups").items) |->
            Deserialize_LookupOp(JField(j, "required_lookups").items[i])],
     check_mode |-> JField(j, "check_mode").s]

\* the paths settings are written to and read from
Paths == {"settings.json", "backup.json"}

\* no file at a path
NoFile == [t |-> "absent", digits |-> << >>, s |-> "", items |-> << >>]

\* a file that was created and not written to the end
PartialFile == [t |-> "partial", digits |-> << >>, s |-> "", items |-> << >>]

NoFiles == [p \in Paths |-> NoFile]

\* how the file system answers a save: it works, File::create fails, or
\* write_all fails after the file was created
IoOutcomes == {"ok", "create_fails", "write_fails"}

\* GraphSettings::save (mod.rs:148-152)
save(s, path, fs, io) ==
    LET encoded == Serialize_GraphSettings(s)
    IN  IF io = "create_fails" THEN [result |-> "IoErr", files |-> fs]
        ELSE IF io = "write_fails"
        THEN [result |-> "IoErr", files |-> [fs EXCEPT ![path] = PartialFile]]
        ELSE [result |-> "Ok", files |-> [fs EXCEPT ![path] = encoded]]

\* GraphSettings::load (mod.rs:154-161): File::open, read_to_string, from_str
load(path, fs) ==
    IF fs[path] = NoFile THEN [result |-> "IoErr", settings |-> << >>]
    ELSE IF ~GraphSettings_ok(fs[path])
    THEN [result |-> "IoErr", settings |-> << >>]
    ELSE [result |-> "Ok", settings |-> Deserialize_GraphSettings(fs[path])]

(***************************************************************************)
(* Data sources (graph/input.rs, outside src/): a File source holds one    *)
(* array per tensor, an OnChain source the calls to make.                  *)
(***************************************************************************)
FileSource(arrays) == [kind |-> "File", arrays |-> arrays, calls |-> 0]

OnChainSource(calls) == [kind |-> "OnChain", arrays |-> << >>, calls |-> calls]

\* a GraphWitness: its two sources and the digests the hash module recorded
GraphWitness(input_data, output_data) ==
    [input_data |-> input_data, output_data |-> output_data,
     processed |-> [input |-> 901, params |-> 902, output |-> 903]]

\* the calls that reach the network, in the names of the eth collaborator
NetworkCalls ==
    {"setup_eth_backend", "read_on_chain_inputs", "evm_quantize", "test_from_file_data"}

\* the events of `events` that are network calls
NetworkEvents(events) == SelectSeq(events, LAMBDA e : e \in NetworkCalls)

\* quantize_float(x, 0.0, scale) = round(x * 2^scale), f64::round rounding
\* halves away from zero; the real x is given in halves (x = h / 2)
quantize_float(h, scale) ==
    LET num == h * 2^scale
        mag == IF num >= 0 THEN num ELSE -num
        rounded == IF mag % 2 = 0 THEN mag \div 2 ELSE (mag + 1) \div 2
    IN  IF num >= 0 THEN rounded ELSE -rounded

\* Tensor::reshape: asserts that the element count is the shape's
reshape_fits(elems, shape) == Len(elems) = Product(shape)

\* the tensors a zip of arrays and shapes builds, up to the shorter of the two
ZipTensors(arrays, shapes) ==
    [i \in 1..Min(Len(arrays), Len(shapes)) |-> [dims |-> shapes[i], inner |-> arrays[i]]]

\* some array of the zip does not have its shape's element count
ZipPanics(arrays, shapes) ==
    \E i \in 1..Min(Len(arrays), Len(shapes)) : ~reshape_fits(arrays[i], shapes[i])

Loaded(result, tensors, events) ==
    [result |-> result, tensors |-> tensors, events |-> events]

\* load_file_data (mod.rs:522-542)
load_file_data(file_data, shapes, scales) ==
    LET n == Min(Min(Len(file_data), Len(shapes)), Len(scales))
        quantized == [i \in 1..n |->
                         [j \in 1..Len(file_data[i]) |->
                             quantize_float(file_data[i][j], scales[i])]]
    IN  IF ZipPanics(quantized, shapes)
        THEN Loaded("Panic", << >>, << >>)
        ELSE Loaded("Ok", ZipTensors(quantized, shapes), << >>)

\* load_witness_file_data (mod.rs:545-558)
load_witness_file_data(file_data, shapes) ==
    IF ZipPanics(file_data, shapes)
    THEN Loaded("Panic", << >>, << >>)
    ELSE Loaded("Ok", ZipTensors(file_data, shapes), << >>)

\* the quantized words evm_quantize returns, one per call of the source
OnChainWords(source) == [i \in 1..source.calls |-> 40 + i]

\* load_on_chain_data (mod.rs:494-519); `net` says whether the endpoint answers
load_on_chain_data(source, shapes, scales, net) ==
    IF net = "down"
    THEN Loaded("NetworkErr", << >>, <<"setup_eth_backend">>)
    ELSE LET events == <<"setup_eth_backend", "read_on_chain_inputs", "evm_quantize">>
             one == << OnChainWords(source) >>
         IN  IF ZipPanics(one, shapes)
             THEN Loaded("Panic", << >>, events)
             ELSE Loaded("Ok", ZipTensors(one, shapes), events)

\* mod.rs:460-463 and 481-484: scales[i] is read for every shape
per_item_scale_panics(shapes, scales) == Len(scales) < Len(shapes)

\* mod.rs:460-463 and 481-484
per_item_scale(shapes, scales) ==
    Flatten([i \in 1..Len(shapes) |-> [j \in 1..Product(shapes[i]) |-> scales[i]]])

\* process_data_source (mod.rs:452-469)
process_data_source(data, shapes, scales, net) ==
    IF data.kind = "OnChain"
    THEN IF per_item_scale_panics(shapes, scales)
         THEN Loaded("Panic", << >>, << >>)
         ELSE load_on_chain_data(data, shapes, per_item_scale(shapes, scales), net)
    ELSE load_file_data(data.arrays, shapes, scales)

\* process_witness_source (mod.rs:473-490)
process_witness_source(data, shapes, scales, net) ==
    IF data.kind = "OnChain"
    THEN IF per_item_scale_panics(shapes, scales)
         THEN Loaded("Panic", << >>, << >>)
         ELSE load_on_chain_data(data, shapes, per_item_scale(shapes, scales), net)
    ELSE load_witness_file_data(data.arrays, shapes)

\* OnChainSourceInner::test_from_file_data: pushes the file data on chain,
\* reads it back, and returns the tensors with the source that now holds them
test_from_file_data(file_data, scales, shapes, net) ==
    IF net = "down"
    THEN [result |-> "NetworkErr", tensors |-> << >>, source |-> OnChainSource(0)]
    ELSE IF ZipPanics(file_data, shapes)
    THEN [result |-> "Panic", tensors |-> << >>, source |-> OnChainSource(0)]
    ELSE [result |-> "Ok", tensors |-> ZipTensors(file_data, shapes),
          source |-> OnChainSource(Len(Flatten(file_data)))]

\* Graph::get_input_scales / get_output_scales: one scale per tensor
get_scales(shapes, scale) == [i \in 1..Len(shapes) |-> scale]

(***************************************************************************)
(* State.                                                                  *)
(***************************************************************************)
VARIABLES
    model,            \* GraphCircuit.model
    inputs,           \* GraphCircuit.inputs
    outputs,          \* GraphCircuit.outputs
    settings,         \* GraphCircuit.settings
    module_settings,  \* GraphCircuit.module_settings
    fwd,              \* what Model::forward reports on (model, inputs)
    calib,            \* the calibrate() invocation in progress, if any
    last,             \* the operation that returned last and what it returned
    files             \* the settings files on disk, by path

vars == <<model, inputs, outputs, settings, module_settings, fwd, calib, last, files>>

\* the circuit `self` the methods work on
Self ==
    [model |-> model, inputs |-> inputs, outputs |-> outputs,
     settings |-> settings, module_settings |-> module_settings]

CalibIdle ==
    [pc |-> "idle", passes |-> 0, entry |-> << >>, widened |-> << >>, events |-> << >>]

Returned(op, result, events, value) ==
    [op |-> op, result |-> result, events |-> events, value |-> value]

(***************************************************************************)
(* forward (mod.rs:612-648).                                               *)
(***************************************************************************)
\* Option<ModuleForwardResult>
None == [some |-> FALSE, digest |-> << >>]

Some(digest) == [some |-> TRUE, digest |-> digest]

RECURSIVE SumSeq(_)
SumSeq(s) == IF s = << >> THEN 0 ELSE Head(s) + SumSeq(Tail(s))

\* GraphModules::forward: the digest of the tensors' elements, kept symbolic
GraphModules_forward(tensors) == <<"hash", Flatten(MapSeq(TensorToVec, tensors))>>

\* the i-th shape's share of a flat run of values: the Product(shapes[i])
\* values that follow the shares of the shapes before it
ShareOf(words, shapes, i) ==
    LET before == SumProducts(SubSeq(shapes, 1, i - 1))
    IN  SubSeq(words, before + 1, before + Product(shapes[i]))

\* Model::get_all_consts: the constant tensors the model holds
get_all_consts(m) == m.consts

\* flatten_valtensors(params): one tensor holding every constant
flatten_valtensors(tensors) ==
    LET elems == Flatten(MapSeq(TensorToVec, tensors))
    IN  [dims |-> <<Len(elems)>>, inner |-> elems]

\* Model::forward(inputs): `f` is whether it succeeds and the
\* max_lookup_inputs it tracks; the outputs are a function of the inputs
Model_forward(m, ins, f) ==
    LET y == 1 + SumSeq(Flatten(MapSeq(TensorToVec, ins)))
    IN  [ok |-> f.ok,
         outputs |-> [i \in 1..Len(m.output_shapes) |->
                         [dims |-> m.output_shapes[i],
                          inner |-> [j \in 1..Product(m.output_shapes[i]) |-> y]]],
         max_lookup_inputs |-> f.max_lookup_inputs]

\* a result that reports the placeholders the circuit was built with
forward_inputs_placeholder(self) == MapSeq(TensorNew, self.model.input_shapes)

\* mod.rs:641, inputs: self.inputs.clone()
forward_inputs(self) == self.inputs

\* the output module fed with the outputs the circuit holds
output_module_input_stale(self, out) == self.outputs

\* mod.rs:637, &outputs.outputs
output_module_input(self, out) == out.outputs

\* forward (mod.rs:612-648); `f` is Model::forward's outcome on self.inputs,
\* whose error `?` propagates (mod.rs:634); `calls` lists the delegated calls
forward(self, f) ==
    LET ra == self.settings.run_args
        in_calls == IF requires_processing(ra.input_visibility)
                    THEN <<"GraphModules::forward(inputs)">> ELSE << >>
        param_calls == IF requires_processing(ra.param_visibility)
                       THEN <<"GraphModules::forward(params)">> ELSE << >>
        out_calls == IF requires_processing(ra.output_visibility)
                     THEN <<"GraphModules::forward(outputs)">> ELSE << >>
        out == Model_forward(self.model, self.inputs, f)
    IN  IF out.ok
        THEN [ok |-> TRUE,
              inputs |-> forward_inputs(self),
              outputs |-> out.outputs,
              processed_inputs |->
                  IF requires_processing(ra.input_visibility)
                  THEN Some(GraphModules_forward(self.inputs)) ELSE None,
              processed_params |->
                  IF requires_processing(ra.param_visibility)
                  THEN Some(GraphModules_forward(
                           <<flatten_valtensors(get_all_consts(self.model))>>))
                  ELSE None,
              processed_outputs |->
                  IF requires_processing(ra.output_visibility)
                  THEN Some(GraphModules_forward(output_module_input(self, out)))
                  ELSE None,
              max_lookup_input |-> out.max_lookup_inputs,
              calls |-> in_calls \o param_calls \o <<"Model::forward">> \o out_calls]
        ELSE [ok |-> FALSE, inputs |-> << >>, outputs |-> << >>,
              processed_inputs |-> None, processed_params |-> None,
              processed_outputs |-> None, max_lookup_input |-> 0,
              calls |-> in_calls \o param_calls \o <<"Model::forward">>]

(***************************************************************************)
(* calibrate (mod.rs:561-609).                                             *)
(***************************************************************************)
\* mod.rs:563
max_range(bits) == 2^(bits - 1)

\* the recommendation without its "+ 1"
recommended_bits_short(max_lookup_input) == CeilLog2(max_lookup_input)

\* mod.rs:565
recommended_bits(max_lookup_input) == CeilLog2(max_lookup_input) + 1

\* the final width without its "+ 1" (a width is never below 1)
min_bits_short(max_lookup_input) == Max(CeilLog2(max_lookup_input), 1)

\* mod.rs:576
min_bits(max_lookup_input) == CeilLog2(max_lookup_input) + 1

\* mod.rs:578-582
min_rows_from_constraints(num_constraints) ==
    CeilLog2(num_constraints + ASSUMED_BLINDING_FACTORS) + 1

\* the row exponent without its lower clamp
calibrate_logrows_unclamped(mb, num_constraints) ==
    Min(Max(mb + 1, min_rows_from_constraints(num_constraints)), MAX_PUBLIC_SRS)

\* mod.rs:583-591
calibrate_logrows(mb, num_constraints) ==
    Min(Max(Max(mb + 1, min_rows_from_constraints(num_constraints)),
            ASSUMED_BLINDING_FACTORS + 1),
        MAX_PUBLIC_SRS)

\* mod.rs:567, the widening branch's test
can_widen(rb) == rb <= MAX_PUBLIC_SRS - 1

\* a widening that raises logrows and leaves bits as they were
widen_logrows_only(s, rb) ==
    [s EXCEPT !.run_args.logrows = rb + 1]

\* mod.rs:568-569
widen(s, rb) ==
    [s EXCEPT !.run_args.bits = rb, !.run_args.logrows = rb + 1]

\* mod.rs:597-598
set_final(s, mb, logrows) ==
    [s EXCEPT !.run_args.bits = mb, !.run_args.logrows = logrows]

\* mod.rs:601-606
rederive(self, s) ==
    GraphCircuit_new(self.model, s.run_args, s.check_mode).settings

\* a fatal branch that assigns the recommendation before it gives up
fatal_leaves_widened(s, rb) == widen(s, rb)

\* mod.rs:571-574: the fatal branch formats its message and returns; it
\* assigns nothing
fatal_leaves(s, rb) == s

\* one execution of calibrate's body: what it leaves in self.settings and how
\* it ends ("recurse" is the tail call of mod.rs:570)
calibrate_body(self, f) ==
    LET s == self.settings
        after(res) ==
            IF ~res.ok THEN [kind |-> "ForwardErr", settings |-> s]
            ELSE IF res.max_lookup_input > max_range(s.run_args.bits)
            THEN LET rb == recommended_bits(res.max_lookup_input)
                 IN  IF can_widen(rb)
                     THEN [kind |-> "recurse", settings |-> widen(s, rb)]
                     ELSE [kind |-> "NoBits", settings |-> fatal_leaves(s, rb)]
            ELSE LET mb == min_bits(res.max_lookup_input)
                     logrows == calibrate_logrows(mb, s.num_constraints)
                 IN  [kind |-> "Ok",
                      settings |-> rederive(self, set_final(s, mb, logrows))]
    \* `let res = self.forward()?` (mod.rs:562): one forward pass per execution
    IN  CHOOSE r \in {after(res) : res \in {forward(self, f)}} : TRUE

\* a body that derives the settings again on every pass that assigned bits
body_events_derive_each_pass(kind) ==
    IF kind \in {"Ok", "recurse"}
    THEN <<"forward", "self.settings.run_args", "GraphCircuit::new">>
    ELSE <<"forward">>

\* the calls and assignments of one execution of the body, in order: the
\* forward pass (mod.rs:561), the assignment of bits and logrows
\* (mod.rs:568-569 before `return self.calibrate()`, or mod.rs:597-598) and
\* the derivation of mod.rs:601, which the widening branch never reaches
body_events(kind) ==
    IF kind = "Ok" THEN <<"forward", "self.settings.run_args", "GraphCircuit::new">>
    ELSE IF kind = "recurse" THEN <<"forward", "self.settings.run_args">>
    ELSE <<"forward">>

\* a re-derivation that keeps the whole circuit GraphCircuit::new returns
calibrate_leaves_derived(self, r) ==
    IF r.kind = "Ok"
    THEN GraphCircuit_new(self.model, r.settings.run_args, r.settings.check_mode)
    ELSE [self EXCEPT !.settings = r.settings]

\* the circuit one execution of the body leaves: the assignments of
\* mod.rs:568-569 and 597-598 write self.settings.run_args, and of the
\* circuit GraphCircuit::new returns only .settings is kept (mod.rs:601-606)
calibrate_leaves(self, r) == [self EXCEPT !.settings = r.settings]

(***************************************************************************)
(* prepare_public_inputs (mod.rs:354-390).                                 *)
(***************************************************************************)
\* GraphModules::public_inputs: one vector per active module slot, holding
\* the digests of the hashed classes in the order inputs, params, outputs
module_public_inputs(data, run_args) ==
    LET h == HashedClasses(run_args)
    IN  IF h = << >> THEN << >>
        ELSE << [i \in 1..Len(h) |-> data.processed[h[i]]] >>

\* mod.rs:361-367 with the outputs put in front of the inputs
public_tensors_outputs_first(self) ==
    (IF is_public(self.settings.run_args.output_visibility)
     THEN self.outputs ELSE << >>) \o
    (IF is_public(self.settings.run_args.input_visibility)
     THEN self.inputs ELSE << >>)

\* mod.rs:361-367
public_tensors(self) ==
    (IF is_public(self.settings.run_args.input_visibility)
     THEN self.inputs ELSE << >>) \o
    (IF is_public(self.settings.run_args.output_visibility)
     THEN self.outputs ELSE << >>)

\* mod.rs:377-389
prepare_public_inputs(self, data) ==
    MapSeq(TensorToVec, public_tensors(self)) \o
    module_public_inputs(data, self.settings.run_args)

(***************************************************************************)
(* load_graph_input (mod.rs:405-417).                                      *)
(***************************************************************************)
Step(self, data, result, events) ==
    [self |-> self, data |-> data, result |-> result, events |-> events]

load_graph_input(self, data, net) ==
    LET shapes == self.model.input_shapes
        scales == [i \in 1..Len(shapes) |-> self.settings.run_args.scale]
        r == process_data_source(data, shapes, scales, net)
    IN  IF r.result # "Ok" THEN Step(self, data, r.result, r.events)
        ELSE Step([self EXCEPT !.inputs = r.tensors], data, "Ok",
                  Append(r.events, "self.inputs"))

(***************************************************************************)
(* load_graph_witness and populate_on_chain_test_data                      *)
(* (mod.rs:319-351, 672-754).                                              *)
(***************************************************************************)
\* test_on_chain_data: None, or Some with its two TestDataSources
NoTest == [some |-> FALSE, input |-> "File", output |-> "File"]

SomeTest(input, output) == [some |-> TRUE, input |-> input, output |-> output]

\* ModuleSettings::from(&data)
ModuleSettingsFrom(data) == "from_witness"

\* a guard that never rejects
input_on_chain_rejected_never(self) == FALSE

\* mod.rs:683
input_on_chain_rejected(self) ==
    ~is_public(self.settings.run_args.input_visibility)

\* mod.rs:721
output_on_chain_rejected(self) ==
    ~is_public(self.settings.run_args.output_visibility)

\* mod.rs:678-715
populate_inputs(self, data, test, net) ==
    LET m == self.model
        scale == self.settings.run_args.scale
    IN  IF test.input = "OnChain"
        THEN IF input_on_chain_rejected(self)
             THEN Step(self, data, "PrivateOnChain", << >>)
             ELSE IF data.input_data.kind = "OnChain"
             THEN Step(self, data, "Panic", << >>)
             ELSE LET length == Len(Flatten(data.input_data.arrays))
                      d == test_from_file_data(data.input_data.arrays,
                                               [i \in 1..length |-> scale],
                                               m.input_shapes, net)
                  IN  IF d.result # "Ok"
                      THEN Step(self, data, d.result, <<"test_from_file_data">>)
                      ELSE Step([self EXCEPT !.inputs = d.tensors],
                                [data EXCEPT !.input_data = d.source], "Ok",
                                <<"test_from_file_data", "self.inputs">>)
        ELSE LET r == process_witness_source(data.input_data, m.input_shapes,
                                             get_scales(m.input_shapes, scale), net)
             IN  IF r.result # "Ok" THEN Step(self, data, r.result, r.events)
                 ELSE Step([self EXCEPT !.inputs = r.tensors], data, "Ok",
                           Append(r.events, "self.inputs"))

\* mod.rs:716-750
populate_outputs(self, data, test, net) ==
    LET m == self.model
        scale == self.settings.run_args.scale
    IN  IF test.output = "OnChain"
        THEN IF output_on_chain_rejected(self)
             THEN Step(self, data, "PrivateOnChain", << >>)
             ELSE IF data.output_data.kind = "OnChain"
             THEN Step(self, data, "Panic", << >>)
             ELSE LET d == test_from_file_data(data.output_data.arrays,
                                               get_scales(m.output_shapes, scale),
                                               m.output_shapes, net)
                  IN  IF d.result # "Ok"
                      THEN Step(self, data, d.result, <<"test_from_file_data">>)
                      ELSE Step([self EXCEPT !.outputs = d.tensors],
                                [data EXCEPT !.output_data = d.source], "Ok",
                                <<"test_from_file_data", "self.outputs">>)
        ELSE LET r == process_witness_source(data.input_data, m.input_shapes,
                                             get_scales(m.output_shapes, scale), net)
             IN  IF r.result # "Ok" THEN Step(self, data, r.result, r.events)
                 ELSE Step([self EXCEPT !.outputs = r.tensors], data, "Ok",
                           Append(r.events, "self.outputs"))

\* mod.rs:672-754; data.save (mod.rs:752) writes the swapped sources out
populate_on_chain_test_data(self, data, test, net) ==
    LET a == populate_inputs(self, data, test, net)
    IN  IF a.result # "Ok" THEN a
        ELSE LET b == populate_outputs(a.self, a.data, test, net)
             IN  Step(b.self, b.data, b.result, a.events \o b.events)

\* mod.rs:331-344, the path without test data
load_sources(self, data, net) ==
    LET m == self.model
        scale == self.settings.run_args.scale
        i == process_witness_source(data.input_data, m.input_shapes,
                                    get_scales(m.input_shapes, scale), net)
        self1 == [self EXCEPT !.inputs = i.tensors]
        o == process_witness_source(data.output_data, m.output_shapes,
                                    get_scales(m.output_shapes, scale), net)
    IN  IF i.result # "Ok" THEN Step(self, data, i.result, i.events)
        ELSE IF o.result # "Ok"
        THEN Step(self1, data, o.result, Append(i.events, "self.inputs") \o o.events)
        ELSE Step([self1 EXCEPT !.outputs = o.tensors], data, "Ok",
                  Append(i.events, "self.inputs") \o Append(o.events, "self.outputs"))

\* mod.rs:319-351
load_graph_witness(self, data, test, net) ==
    LET r == IF test.some THEN populate_on_chain_test_data(self, data, test, net)
             ELSE load_sources(self, data, net)
    IN  IF r.result # "Ok" THEN r
        ELSE Step([r.self EXCEPT !.module_settings = ModuleSettingsFrom(r.data)],
                  r.data, "Ok", Append(r.events, "self.module_settings"))

(***************************************************************************)
(* synthesize (mod.rs:811-900): the delegated calls of one run, in order,  *)
(* and the instance offset handed to the module layouts.                   *)
(***************************************************************************)
\* ModuleInstanceOffset::new() (mod.rs:823): no instance cell consumed yet
ModuleInstanceOffset_new == 0

\* GraphModules::layout on the offset: a class that does not require
\* processing is a no-op, a hashed class consumes one instance cell
GraphModules_layout(visibility, offset) ==
    IF requires_processing(visibility) THEN offset + 1 ELSE offset

\* !self.model.get_all_consts().is_empty() (mod.rs:838, 860)
has_consts(self) == self.model.const_shapes # << >>

\* mod.rs:836-856: the flattening is conditional, the module layout is not
param_steps(consts) ==
    IF consts THEN <<"flatten_params", "param_module">> ELSE <<"param_module">>

\* mod.rs:859-870: split_valtensor, then model.replace_consts on the clone
const_steps(consts) ==
    IF consts THEN <<"split_params", "replace_consts">> ELSE << >>

\* a run that lays the model out ahead of the parameter module
layout_sequence_model_first(consts) ==
    <<"input_module", "new_region", "model_layout">> \o param_steps(consts) \o
    const_steps(consts) \o <<"output_module">>

\* mod.rs:827-897: the calls of a run in which nothing fails
layout_sequence(consts) ==
    <<"input_module">> \o param_steps(consts) \o const_steps(consts) \o
    <<"new_region", "model_layout", "output_module">>

\* the calls whose Result synthesize inspects (`?` and map_err);
\* replace_consts returns nothing
FallibleSteps ==
    {"input_module", "flatten_params", "param_module", "split_params",
     "new_region", "model_layout", "output_module"}

\* what can go wrong in a run: nothing, or the named call when it is reached
SynthFailures == {"none"} \cup FallibleSteps

\* position of the call `fail` in `seq`, 0 when the run does not make it
failing_index(seq, fail) ==
    IF \E i \in 1..Len(seq) : seq[i] = fail
    THEN CHOOSE i \in 1..Len(seq) : seq[i] = fail
    ELSE 0

\* a run that logs the failure and carries on
executed_all(seq, k) == seq

\* `?` (mod.rs:834, 846, 856, 868, 873, 886, 897): the call at k returns Err
\* and synthesize returns at once
executed(seq, k) == IF k = 0 THEN seq ELSE SubSeq(seq, 1, k)

\* the offset each module layout of `events` is handed: the one object
\* created at mod.rs:823, as the layouts before it left it
module_offsets(run_args, events) ==
    LET o_input == ModuleInstanceOffset_new
        o_params == GraphModules_layout(run_args.input_visibility, o_input)
        o_output == GraphModules_layout(run_args.param_visibility, o_params)
        of(e) == IF e = "input_module" THEN o_input
                 ELSE IF e = "param_module" THEN o_params ELSE o_output
        mods == SelectSeq(events,
                    LAMBDA e : e \in {"input_module", "param_module", "output_module"})
    IN  [i \in 1..Len(mods) |-> [call |-> mods[i], offset |-> of(mods[i])]]

\* a ValTensor of the tensor's values, held by `held`
ValTensor(t, held) == [dims |-> t.dims, inner |-> t.inner, held |-> held]

\* mod.rs:817-821: ValTensor::from(i.map(|x| Value::known(x)))
ValTensor_from(t) == ValTensor(t, "known")

\* GraphModules::layout on the tensors it is handed by `&mut`: a class that
\* requires processing leaves them as the cells `module` assigned, with
\* their values; any other class leaves them as they were
GraphModules_layout_tensors(tensors, visibility, module) ==
    IF requires_processing(visibility)
    THEN [i \in 1..Len(tensors) |-> ValTensor(tensors[i], module)]
    ELSE tensors

\* split_valtensor(t, shapes): t cut into one tensor per shape, in order
split_valtensor(t, shapes) ==
    [i \in 1..Len(shapes) |->
        [dims |-> shapes[i], inner |-> ShareOf(t.inner, shapes, i), held |-> t.held]]

\* Model::clone: an independent copy
Model_clone(m) == m

\* Model::replace_consts
Model_replace_consts(m, consts) == [m EXCEPT !.consts = consts]

\* mod.rs:837-846: the flattened parameters, before the module sees them
flattened_params(self) ==
    IF has_consts(self)
    THEN << ValTensor(flatten_valtensors(get_all_consts(self.model)), "const") >>
    ELSE << >>

\* a model laid out with the constants it came with
substituted_model_unsubstituted(self, flattened) == Model_clone(self.model)

\* mod.rs:859-870: the clone of the model with the flattened parameters, as
\* the parameter module left them, split into the constant shapes
substituted_model(self, flattened) ==
    Model_replace_consts(Model_clone(self.model),
                         split_valtensor(flattened[1], self.model.const_shapes))

\* a substitution made in the circuit's own model
synthesize_leaves_in_place(self, laid_model) == [self EXCEPT !.model = laid_model]

\* synthesize takes &self (mod.rs:812) and substitutes into the clone of
\* mod.rs:859: the circuit is left as it was
synthesize_leaves(self, laid_model) == self

\* `e` is among the calls of a run
Made(events, e) == \E i \in 1..Len(events) : events[i] = e

\* synthesize (mod.rs:811-900); `laid` is what model.layout was called on
synthesize(self, fail) ==
    LET seq == layout_sequence(has_consts(self))
        k == failing_index(seq, fail)
        events == executed(seq, k)
        ra == self.settings.run_args
        ins == GraphModules_layout_tensors(MapSeq(ValTensor_from, self.inputs),
                                           ra.input_visibility, "input_module")
        flattened == GraphModules_layout_tensors(flattened_params(self),
                                                 ra.param_visibility, "param_module")
        laid_model == IF Made(events, "replace_consts")
                      THEN substituted_model(self, flattened)
                      ELSE Model_clone(self.model)
    IN  [result |-> IF k = 0 THEN "Ok" ELSE "Synthesis",
         failed |-> IF k = 0 THEN "none" ELSE fail,
         events |-> events,
         offsets |-> module_offsets(ra, events),
         laid |-> IF Made(events, "model_layout")
                  THEN [reached |-> TRUE, consts |-> get_all_consts(laid_model),
                        inputs |-> ins]
                  ELSE [reached |-> FALSE, consts |-> << >>, inputs |-> << >>],
         self |-> synthesize_leaves(self, laid_model)]

(***************************************************************************)
(* Construction.                                                           *)
(***************************************************************************)
\* run_args whose VarVisibility::from_args succeeds: something is public or
\* hashed (GraphError::Visibility, mod.rs:74-76)
ValidVisibility(iv, ov, pv) ==
    \E v \in {iv, ov, pv} : is_public(v) \/ requires_processing(v)

\* the circuits the calibration sweep starts from: one model shape, every
\* initial bits, every row count
SweepCircuits ==
    {GraphCircuit_new(SmallModel(n),
                      RunArgs(b, InitLogrows, sc, "Public", "Public", "Private"),
                      "SAFE") :
        n \in ConstraintCounts, b \in 1..MaxInitBits, sc \in Scales}

\* the circuits the loading paths start from: both model shapes, every
\* visibility of inputs and outputs
ShapeCircuits ==
    {GraphCircuit_new(m, RunArgs(4, InitLogrows, sc, v[1], v[2], "Private"), "SAFE") :
        m \in {SmallModel(10), WideModel(10)}, sc \in Scales,
        v \in {w \in Visibilities \X Visibilities : ValidVisibility(w[1], w[2], "Private")}}

\* the circuits forward passes and synthesis start from: the three model
\* shapes (one constant, none, two), every visibility of inputs, outputs and
\* parameters
LayoutCircuits ==
    {GraphCircuit_new(m, RunArgs(4, InitLogrows, sc, v[1], v[2], v[3]), "SAFE") :
        m \in {SmallModel(10), WideModel(10), ConstModel(10)}, sc \in Scales,
        v \in {w \in Visibilities \X Visibilities \X Visibilities :
                  ValidVisibility(w[1], w[2], w[3])}}

\* settings as a caller can supply them to new_from_settings: derived by an
\* earlier compile step for some model, so any value of each field
SuppliedSettings ==
    {[run_args |-> RunArgs(b, InitLogrows, sc, v[1], v[2], v[3]),
      num_constraints |-> n,
      model_instance_shapes |-> sh,
      model_output_scales |-> os,
      module_sizes |-> ms,
      required_lookups |-> lk,
      check_mode |-> "SAFE"] :
        b \in {4, MAX_PUBLIC_SRS}, sc \in {0, 7},
        v \in {<<"Public", "Public", "Private">>, <<"Hashed", "Private", "Hashed">>},
        n \in {0, 10, 2^MAX_PUBLIC_SRS - ASSUMED_BLINDING_FACTORS + 1},
        sh \in {<< >>, << <<1>>, <<2, 3>> >>},
        os \in {<< >>, <<7, 0>>},
        ms \in {[max_constraints |-> 0, num_instances |-> << >>],
                [max_constraints |-> 12, num_instances |-> <<2>>]},
        lk \in {<< >>, <<[kind |-> "ReLU", scale |-> 1],
                         [kind |-> "Div", scale |-> 128]>>}}

\* the circuits the settings files are written from
SettingsCircuits ==
    {GraphCircuit_new_from_settings(SmallModel(10), s, cm) :
        s \in SuppliedSettings, cm \in CheckModes}

\* the forward outcomes the loading runs draw from: a value that needs a
\* widening from bits = 4, and an error
ShapeFwdResults == {f \in FwdResults : ~f.ok \/ f.max_lookup_inputs = 9}

InitFrom(circuits, fwds) ==
    \E c \in circuits :
        /\ model = c.model
        /\ inputs = c.inputs
        /\ outputs = c.outputs
        /\ settings = c.settings
        /\ module_settings = c.module_settings
        /\ fwd \in fwds
        /\ calib = CalibIdle
        /\ last = Returned("new", "Ok", << >>, 0)
        /\ files = NoFiles

\* a circuit right after GraphCircuit::new, of either model shape and any
\* visibility
Init == InitFrom(ShapeCircuits, ShapeFwdResults)

\* a circuit right after GraphCircuit::new, of any initial bits, row count
\* and forward outcome
InitSweep == InitFrom(SweepCircuits, FwdResults)

\* a circuit right after GraphCircuit::new, of either model shape and any
\* visibility of inputs, outputs and parameters
InitLayout == InitFrom(LayoutCircuits, ShapeFwdResults)

(***************************************************************************)
(* Actions.                                                                *)
(***************************************************************************)
Circuit == <<model, inputs, outputs, module_settings>>

\* a caller runs forward() on the circuit
Forward ==
    /\ calib.pc = "idle"
    /\ LET res == forward(Self, fwd)
       IN  last' = Returned("forward", IF res.ok THEN "Ok" ELSE "ForwardErr", << >>,
                            [max_lookup_input |-> res.max_lookup_input,
                             after_calibrate |-> last.op = "calibrate" /\ last.result = "Ok",
                             res |-> res])
    /\ UNCHANGED <<files, Circuit, settings, fwd, calib>>

\* a caller enters calibrate()
CalibrateCall ==
    /\ calib.pc = "idle"
    /\ calib' = [pc |-> "running", passes |-> 0, entry |-> settings,
                 widened |-> << >>, events |-> << >>]
    /\ UNCHANGED <<files, Circuit, settings, fwd, last>>

\* the body widens bits and calls itself
CalibrateRecurse ==
    /\ calib.pc = "running"
    /\ calib.passes < MaxPasses
    /\ \E r \in {calibrate_body(Self, fwd)} :
           /\ r.kind = "recurse"
           /\ settings' = calibrate_leaves(Self, r).settings
           /\ model' = calibrate_leaves(Self, r).model
           /\ inputs' = calibrate_leaves(Self, r).inputs
           /\ outputs' = calibrate_leaves(Self, r).outputs
           /\ module_settings' = calibrate_leaves(Self, r).module_settings
           /\ calib' = [calib EXCEPT !.passes = @ + 1,
                                     !.widened = Append(@, r.settings.run_args.bits),
                                     !.events = @ \o body_events(r.kind)]
    /\ UNCHANGED <<files, fwd, last>>

\* the body returns an error: forward's, or "No possible value of bits"
CalibrateFail ==
    /\ calib.pc = "running"
    /\ calib.passes < MaxPasses
    /\ \E r \in {calibrate_body(Self, fwd)} :
           /\ r.kind \in {"ForwardErr", "NoBits"}
           /\ settings' = calibrate_leaves(Self, r).settings
           /\ model' = calibrate_leaves(Self, r).model
           /\ inputs' = calibrate_leaves(Self, r).inputs
           /\ outputs' = calibrate_leaves(Self, r).outputs
           /\ module_settings' = calibrate_leaves(Self, r).module_settings
           /\ last' = Returned("calibrate", r.kind,
                                calib.events \o body_events(r.kind), calib.passes + 1)
    /\ calib' = CalibIdle
    /\ UNCHANGED <<files, fwd>>

\* the body takes the non-widening branch, re-derives the settings, returns Ok
CalibrateFinish ==
    /\ calib.pc = "running"
    /\ calib.passes < MaxPasses
    /\ \E r \in {calibrate_body(Self, fwd)} :
           /\ r.kind = "Ok"
           /\ settings' = calibrate_leaves(Self, r).settings
           /\ model' = calibrate_leaves(Self, r).model
           /\ inputs' = calibrate_leaves(Self, r).inputs
           /\ outputs' = calibrate_leaves(Self, r).outputs
           /\ module_settings' = calibrate_leaves(Self, r).module_settings
           /\ last' = Returned("calibrate", "Ok",
                                calib.events \o body_events(r.kind), calib.passes + 1)
    /\ calib' = CalibIdle
    /\ UNCHANGED <<files, fwd>>

Calibrate == CalibrateCall \/ CalibrateRecurse \/ CalibrateFail \/ CalibrateFinish

\* the witnesses and inputs callers hand in
InputArrays == {<< <<1>> >>, << <<1>>, <<5, 6>> >>}

OutputArrays == {<< <<5>> >>, << <<5, 6>> >>}

\* raw inputs in halves: 1.5, and 1.5 with (1.0, 2.0)
RawArrays == {<< <<3>> >>, << <<3>>, <<2, 4>> >>}

Witnesses ==
    {GraphWitness(i, o) :
        i \in {FileSource(a) : a \in InputArrays} \cup {OnChainSource(1)},
        o \in {FileSource(a) : a \in OutputArrays} \cup {OnChainSource(1)}}

GraphInputs == {FileSource(a) : a \in RawArrays} \cup {OnChainSource(1)}

\* whether the endpoint answers during an invocation
Nets == {"up", "down"}

\* TestDataSource (mod.rs:186-194)
TestSources == {"File", "OnChain"}

Tests == {NoTest} \cup {SomeTest(i, o) : i, o \in TestSources}

\* a handler returned `r`: the circuit takes what it left in self, and the
\* forward pass may report anything new once the inputs differ
Commit(op, r) ==
    /\ inputs' = r.self.inputs
    /\ outputs' = r.self.outputs
    /\ module_settings' = r.self.module_settings
    /\ IF r.self.inputs = inputs THEN fwd' = fwd ELSE fwd' \in ShapeFwdResults
    /\ last' = Returned(op, r.result, r.events, 0)
    /\ UNCHANGED <<files, model, settings, calib>>

\* a caller runs prepare_public_inputs(data)
PreparePublicInputs ==
    /\ calib.pc = "idle"
    /\ \E data \in Witnesses :
        last' = Returned("prepare_public_inputs", "Ok", << >>,
                         prepare_public_inputs(Self, data))
    /\ UNCHANGED <<files, Circuit, settings, fwd, calib>>

\* a caller runs load_graph_input(data)
LoadGraphInput ==
    /\ calib.pc = "idle"
    /\ \E data \in GraphInputs, net \in Nets :
        Commit("load_graph_input", load_graph_input(Self, data, net))

\* a caller runs load_graph_witness(data, test_on_chain_data)
LoadGraphWitness ==
    /\ calib.pc = "idle"
    /\ \E data \in Witnesses, test \in Tests, net \in Nets :
        Commit("load_graph_witness", load_graph_witness(Self, data, test, net))

\* the prover runs synthesize(config, layouter); `fail` is the delegated call
\* that returns an error in this run, if any
Synthesize ==
    /\ calib.pc = "idle"
    /\ \E fail \in SynthFailures :
        \E r \in {synthesize(Self, fail)} :
            /\ model' = r.self.model
            /\ inputs' = r.self.inputs
            /\ outputs' = r.self.outputs
            /\ settings' = r.self.settings
            /\ module_settings' = r.self.module_settings
            /\ last' = Returned("synthesize", r.result, r.events,
                                 [failed |-> r.failed, offsets |-> r.offsets,
                                  laid |-> r.laid])
    /\ UNCHANGED <<files, fwd, calib>>

\* a caller runs circuit.settings.save(path)
SaveSettings ==
    /\ calib.pc = "idle"
    /\ \E path \in Paths, io \in IoOutcomes :
        LET r == save(settings, path, files, io)
        IN  /\ files' = r.files
            /\ last' = Returned("save", r.result, << >>,
                                [path |-> path, settings |-> << >>])
    /\ UNCHANGED <<Circuit, settings, fwd, calib>>

\* a caller runs GraphSettings::load(path)
LoadSettings ==
    /\ calib.pc = "idle"
    /\ \E path \in Paths :
        LET r == load(path, files)
        IN  last' = Returned("load", r.result, << >>,
                             [path |-> path, settings |-> r.settings])
    /\ UNCHANGED <<files, Circuit, settings, fwd, calib>>

NextCalibrate ==
    \/ Forward
    \/ Calibrate

NextSettings ==
    \/ SaveSettings
    \/ LoadSettings

NextLayout ==
    \/ Forward
    \/ Synthesize

Next ==
    \/ Forward
    \/ Calibrate
    \/ PreparePublicInputs
    \/ LoadGraphInput
    \/ LoadGraphWitness

Spec == Init /\ [][Next]_vars

\* construction, forward passes and calibration over every initial bits
SweepSpec == InitSweep /\ [][NextCalibrate]_vars

\* a circuit built from supplied settings
InitSettings == InitFrom(SettingsCircuits, {[ok |-> FALSE, max_lookup_inputs |-> 0]})

\* settings written to and read back from files
SettingsSpec == InitSettings /\ [][NextSettings]_vars

\* construction, forward passes and synthesis over every visibility
LayoutSpec == InitLayout /\ [][NextLayout]_vars

\* the sweep for termination: the iteration count of calibrate() depends on
\* bits and on what forward reports, not on the row count, so one row count
TerminationCircuits ==
    {c \in SweepCircuits : c.settings.num_constraints = 10}

InitTermination == InitFrom(TerminationCircuits, FwdResults)

\* calibrate() runs to completion once entered: nothing interrupts an iteration
LiveSweepSpec ==
    /\ InitTermination
    /\ [][Calibrate]_vars
    /\ WF_vars(CalibrateRecurse \/ CalibrateFail \/ CalibrateFinish)

C2_FatalWheneverTooWide ==
    (last.op = "calibrate" /\ fwd.ok
        /\ CeilLog2(fwd.max_lookup_inputs) + 1 > MAX_PUBLIC_SRS - 1)
        => last.result = "NoBits"

C4_MonotonicWidening ==
    [][/\ (calib.pc = "running" /\ calib'.pc = "running")
            => settings'.run_args.bits > settings.run_args.bits
       /\ (calib.pc = "running" /\ calib'.pc = "idle" /\ calib.widened # << >>)
            => settings'.run_args.bits >= calib.widened[Len(calib.widened)]]_vars

\* an invocation that started at bits = 4, widened to 5 and is about to finish
C4_Witness ==
    /\ calib.pc = "running"
    /\ calib.entry.run_args.bits = 4
    /\ calib.widened = <<5>>
    /\ settings.run_args.bits = 5

\* C5: whenever calibrate() returned Ok, the rows fit:
\* num_constraints + ASSUMED_BLINDING_FACTORS <= 2^logrows and
\* logrows <= MAX_PUBLIC_SRS, for the num_constraints held after re-derivation.
C5_RowsFit ==
    (last.op = "calibrate" /\ last.result = "Ok")
        => /\ settings.num_constraints + ASSUMED_BLINDING_FACTORS
                <= 2^settings.run_args.logrows
           /\ settings.run_args.logrows <= MAX_PUBLIC_SRS

(***************************************************************************)
(* Public-input claims.                                                    *)
(***************************************************************************)
\* the vectors of a list of tensors, in element order
VectorsOf(tensors) == [i \in 1..Len(tensors) |-> tensors[i].inner]

\* C6: prepare_public_inputs returns the input tensors iff input visibility
\* is public, then the output tensors iff output visibility is public, then
\* the module vectors; with both public and no module active the result is
\* exactly [inputs..., outputs...], each flattened in element order.
C6_PublicInputOrder ==
    last.op = "prepare_public_inputs" =>
        LET ra == settings.run_args
            ins == IF ra.input_visibility = "Public" THEN VectorsOf(inputs) ELSE << >>
            outs == IF ra.output_visibility = "Public" THEN VectorsOf(outputs) ELSE << >>
        IN  /\ \E data \in Witnesses :
                last.value = ins \o outs \o module_public_inputs(data, ra)
            /\ (ra.input_visibility = "Public" /\ ra.output_visibility = "Public"
                    /\ ra.param_visibility # "Hashed")
                => last.value = VectorsOf(inputs) \o VectorsOf(outputs)

\* input 1.5 loaded at scale 7 next to a witness output: [[192], [5]]
C6_Witness ==
    /\ last.op = "prepare_public_inputs"
    /\ settings.run_args.scale = 7
    /\ settings.run_args.input_visibility = "Public"
    /\ settings.run_args.output_visibility = "Public"
    /\ last.value = << <<192>>, <<5>> >>

\* C7: for a circuit whose settings were derived for its model and run_args,
\* the vectors prepare_public_inputs returns have, in order, the lengths
\* settings.total_instances(), in every state in which it can be called.
C7_LengthsAreTotalInstances ==
    last.op = "prepare_public_inputs" =>
        [i \in 1..Len(last.value) |-> Len(last.value[i])] = total_instances(settings)

(***************************************************************************)
(* On-chain precondition claims.                                           *)
(***************************************************************************)
\* C8: load_graph_witness with test data whose input source is OnChain, on a
\* circuit whose input visibility is not public, fails with "Cannot use
\* on-chain data source as private data" before any network call and before
\* circuit.inputs is written.
C8_PrivateInputRejectedFirst ==
    ~is_public(settings.run_args.input_visibility) =>
        \A data \in Witnesses, o \in TestSources, net \in Nets :
            LET r == load_graph_witness(Self, data, SomeTest("OnChain", o), net)
            IN  /\ r.result = "PrivateOnChain"
                /\ r.events = << >>
                /\ r.self.inputs = inputs

\* such a call has returned its rejection on a circuit with private inputs
C8_Witness ==
    /\ last.op = "load_graph_witness"
    /\ last.result = "PrivateOnChain"
    /\ last.events = << >>
    /\ settings.run_args.input_visibility = "Private"
    /\ settings.run_args.output_visibility = "Public"

\* C9: load_graph_witness with test data whose output source is OnChain, on a
\* circuit whose output visibility is not public, is rejected before any
\* network call of the invocation is attempted, whatever the input source.
C9_PrivateOutputRejectedFirst ==
    ~is_public(settings.run_args.output_visibility) =>
        \A data \in Witnesses, i \in TestSources, net \in Nets :
            LET r == load_graph_witness(Self, data, SomeTest(i, "OnChain"), net)
            IN  r.result = "PrivateOnChain" => NetworkEvents(r.events) = << >>

\* C10: on the ordinary load paths an on-chain source for a tensor whose
\* visibility is not public is rejected before dispatch: the load fails and
\* no network call is reached.
C10_OrdinaryLoadsGuarded ==
    /\ ~is_public(settings.run_args.input_visibility) =>
        \A net \in Nets :
            /\ \A data \in {d \in GraphInputs : d.kind = "OnChain"} :
                LET r == load_graph_input(Self, data, net)
                IN  r.result # "Ok" /\ NetworkEvents(r.events) = << >>
            /\ \A data \in {w \in Witnesses : w.input_data.kind = "OnChain"} :
                LET r == load_graph_witness(Self, data, NoTest, net)
                IN  r.result # "Ok" /\ NetworkEvents(r.events) = << >>
    /\ ~is_public(settings.run_args.output_visibility) =>
        \A net \in Nets :
            \A data \in {w \in Witnesses : w.output_data.kind = "OnChain"} :
                LET r == load_graph_witness(Self, data, NoTest, net)
                IN  r.result # "Ok" /\ NetworkEvents(r.events) = << >>


(***************************************************************************)
(* Synthesis claims.                                                       *)
(***************************************************************************)
\* the six layout steps, in the order the run must take them
LayoutOrder ==
    <<"input_module", "param_module", "replace_consts", "new_region",
      "model_layout", "output_module">>

\* the layout steps among the calls of a run, in the order they were made
LayoutStepsOf(events) ==
    SelectSeq(events, LAMBDA e : \E i \in 1..Len(LayoutOrder) : LayoutOrder[i] = e)

\* where a layout step stands in LayoutOrder
OrderIndex(e) == CHOOSE i \in 1..Len(LayoutOrder) : LayoutOrder[i] = e

\* C11: in every synthesize run the layout steps happen at most once each and
\* in the order input module, parameter module, constant substitution, empty
\* region, model layout, output module; a step is made only after every call
\* before it succeeded; the module layouts are handed the one instance offset
\* created at the start, each as the layout before it left it.
C11_LayoutOrder ==
    last.op = "synthesize" =>
        LET steps == LayoutStepsOf(last.events)
            offs == last.value.offsets
            ra == settings.run_args
            vis(c) == IF c = "input_module" THEN ra.input_visibility
                      ELSE IF c = "param_module" THEN ra.param_visibility
                      ELSE ra.output_visibility
        IN  /\ \A i \in 1..(Len(steps) - 1) :
                OrderIndex(steps[i]) < OrderIndex(steps[i + 1])
            /\ \A i \in 1..(Len(last.events) - 1) :
                last.events[i] # last.value.failed
            /\ (last.result = "Ok" /\ model.const_shapes # << >>)
                    => steps = LayoutOrder
            /\ offs # << >> => offs[1].offset = ModuleInstanceOffset_new
            /\ \A i \in 1..(Len(offs) - 1) :
                offs[i + 1].offset =
                    offs[i].offset +
                    (IF vis(offs[i].call) = "Hashed" THEN 1 ELSE 0)

\* a complete run on a model with constants whose three classes are hashed:
\* the output module is handed the offset after two layouts
C11_Witness ==
    /\ last.op = "synthesize" /\ last.result = "Ok"
    /\ model.const_shapes # << >>
    /\ LayoutStepsOf(last.events) = LayoutOrder
    /\ Len(last.value.offsets) = 3
    /\ last.value.offsets[3].offset = 2

\* C12: when the model has no constants, synthesize makes neither the
\* parameter-module layout call nor the constant substitution, and returns Ok
\* when no other step fails, for every parameter visibility.
C12_EmptyConstsSkipParams ==
    (last.op = "synthesize" /\ model.const_shapes = << >>) =>
        /\ \A i \in 1..Len(last.events) :
            last.events[i] \notin {"param_module", "replace_consts"}
        /\ last.value.failed = "none" => last.result = "Ok"

\* C13: when a delegated step fails, synthesize returns the synthesis failure
\* at once: the failed call is the last call of the run and was made once.
C13_FailureStopsRun ==
    (last.op = "synthesize" /\ last.value.failed # "none") =>
        /\ last.result = "Synthesis"
        /\ last.events[Len(last.events)] = last.value.failed
        /\ Cardinality({i \in 1..Len(last.events) :
                           last.events[i] = last.value.failed}) = 1

\* the split of the parameters failed: nothing was substituted, no region opened
C13_Witness ==
    /\ last.op = "synthesize" /\ last.result = "Synthesis"
    /\ last.value.failed = "split_params"
    /\ last.events = <<"input_module", "flatten_params", "param_module", "split_params">>



(***************************************************************************)
(* Settings file claims.                                                   *)
(***************************************************************************)
\* C14: loading a file that a save of the settings s wrote returns Ok with a
\* value equal to s in every field: run_args, num_constraints,
\* model_instance_shapes, model_output_scales, module_sizes, required_lookups
\* and check_mode.
C14_SettingsRoundTrip ==
    (last.op = "load" /\ files[last.value.path].t = "obj") =>
        /\ last.result = "Ok"
        /\ last.value.settings.run_args = settings.run_args
        /\ last.value.settings.num_constraints = settings.num_constraints
        /\ last.value.settings.model_instance_shapes = settings.model_instance_shapes
        /\ last.value.settings.model_output_scales = settings.model_output_scales
        /\ last.value.settings.module_sizes = settings.module_sizes
        /\ last.value.settings.required_lookups = settings.required_lookups
        /\ last.value.settings.check_mode = settings.check_mode

\* a file read back whose settings hold lookups, shapes and a large row count
C14_Witness ==
    /\ last.op = "load" /\ last.result = "Ok"
    /\ files[last.value.path] = Serialize_GraphSettings(settings)
    /\ last.value.settings.required_lookups # << >>
    /\ last.value.settings.model_instance_shapes = << <<1>>, <<2, 3>> >>
    /\ last.value.settings.num_constraints = 2^MAX_PUBLIC_SRS - ASSUMED_BLINDING_FACTORS + 1
    /\ last.value.settings.check_mode = "UNSAFE"



(***************************************************************************)
(* File loading claims.                                                    *)
(***************************************************************************)
\* C15: load_file_data returns an error whenever the file source holds a
\* number of arrays other than the number of declared shapes, or an array
\* whose element count is not the product of its shape; it never returns Ok
\* with a number of tensors other than the number of declared shapes.
C15_FileArityChecked ==
    \A file_data \in RawArrays :
        LET shapes == model.input_shapes
            r == load_file_data(file_data, shapes,
                                get_scales(shapes, settings.run_args.scale))
            mismatch ==
                \/ Len(file_data) # Len(shapes)
                \/ \E i \in 1..Min(Len(file_data), Len(shapes)) :
                    Len(file_data[i]) # Product(shapes[i])
        IN  /\ mismatch => r.result = "Err"
            /\ r.result = "Ok" => Len(r.tensors) = Len(shapes)



(***************************************************************************)
(* Frame claims.                                                           *)
(***************************************************************************)
\* C16: forward() leaves the circuit's model, inputs, outputs, settings and
\* module_settings as they were, whether it returns Ok or an error, and the
\* inputs field of an Ok result equals the circuit's inputs.
C16_ForwardReadsOnly ==
    [][(calib.pc = "idle" /\ calib'.pc = "idle" /\ last'.op = "forward")
        => /\ UNCHANGED <<model, inputs, outputs, settings, module_settings>>
           /\ last'.result = "Ok" => last'.value.res.inputs = inputs']_vars

\* a forward pass on loaded inputs: the result carries the loaded 1.5
C16_Witness ==
    /\ last.op = "forward" /\ last.result = "Ok"
    /\ inputs = << [dims |-> <<1>>, inner |-> <<192>>] >>
    /\ last.value.res.inputs = inputs



\* C17: calibrate() changes only the settings: across every iteration of an
\* invocation and at its return, with Ok or with an error, the circuit's
\* model, inputs, outputs and module_settings are what they were.
C17_CalibrateWritesSettingsOnly ==
    [][(calib.pc = "running" \/ calib'.pc = "running")
        => UNCHANGED <<model, inputs, outputs, module_settings>>]_vars

\* a calibration of a circuit holding a loaded witness widened and returned Ok
C17_Witness ==
    /\ last.op = "calibrate" /\ last.result = "Ok" /\ last.value = 2
    /\ inputs = << [dims |-> <<1>>, inner |-> <<1>>] >>
    /\ outputs = << [dims |-> <<1>>, inner |-> <<5>>] >>
    /\ module_settings = "from_witness"
    /\ settings.run_args.bits = 5



C19_DerivedOnceAtTheEnd ==
    [][(calib.pc = "running" /\ calib'.pc = "idle" /\ last'.result = "Ok")
        => LET ev == last'.events
               n == Len(ev)
           IN  /\ Cardinality({i \in 1..n : ev[i] = "GraphCircuit::new"}) = 1
               /\ n >= 2
               /\ ev[n] = "GraphCircuit::new"
               /\ ev[n - 1] = "self.settings.run_args"
               /\ settings' =
                    GraphCircuit_new(model, settings'.run_args,
                                     calib.entry.check_mode).settings]_vars

\* an invocation that widened once and derived the settings after its second
\* forward pass
C19_Witness ==
    /\ last.op = "calibrate" /\ last.result = "Ok"
    /\ last.events = <<"forward", "self.settings.run_args",
                       "forward", "self.settings.run_args", "GraphCircuit::new">>

\* the number of times forward() made the delegated call `c`
CallCount(res, c) == Cardinality({i \in 1..Len(res.calls) : res.calls[i] = c})

C21_OnChainTensorPerShape ==
    \A calls \in {1, SumProducts(model.input_shapes)} :
        LET shapes == model.input_shapes
            source == OnChainSource(calls)
            r == process_witness_source(source, shapes,
                     get_scales(shapes, settings.run_args.scale), "up")
        IN  /\ calls = SumProducts(shapes) => r.result = "Ok"
            /\ r.result = "Ok" =>
                 /\ Len(r.tensors) = Len(shapes)
                 /\ \A i \in 1..Len(shapes) :
                      r.tensors[i] =
                          [dims |-> shapes[i],
                           inner |-> ShareOf(OnChainWords(source), shapes, i)]

\* C22: after every load_graph_witness that returns Ok (without test data,
\* with test data and output source File, with test data and output source
\* OnChain) circuit.inputs is the witness's input_data reshaped to the
\* model's input shapes and circuit.outputs its output_data reshaped to the
\* model's output shapes.
C22_OutputsFromOutputData ==
    \A data \in Witnesses, test \in Tests, net \in Nets :
        LET scale == settings.run_args.scale
            r == load_graph_witness(Self, data, test, net)
            i == process_witness_source(data.input_data, model.input_shapes,
                     get_scales(model.input_shapes, scale), net)
            o == process_witness_source(data.output_data, model.output_shapes,
                     get_scales(model.output_shapes, scale), net)
        IN  r.result = "Ok" =>
                /\ r.self.inputs = i.tensors
                /\ r.self.outputs = o.tensors

(***************************************************************************)
(* Calibration error and row claims.                                       *)
(***************************************************************************)
\* C25: when calibrate() returns the fatal "No possible value of bits" error
\* the settings are the ones the circuit had when calibrate() was called:
\* the error is raised by the first execution of the body, before any
\* widening assignment.
C25_FatalLeavesSettings ==
    [][(calib.pc = "running" /\ calib'.pc = "idle" /\ last'.result = "NoBits")
        => /\ calib.passes = 0
           /\ calib.widened = << >>
           /\ settings' = calib.entry
           /\ settings' = settings]_vars

\* an invocation that failed with the fatal error on a circuit of 4 bits
C25_Witness ==
    /\ last.op = "calibrate" /\ last.result = "NoBits"
    /\ last.value = 1
    /\ settings.run_args.bits = 4
    /\ CeilLog2(fwd.max_lookup_inputs) + 1 = MAX_PUBLIC_SRS

\* C26: whenever calibrate() returned Ok, for every initial bits,
\* settings.run_args.logrows >= settings.run_args.bits + 1.
C26_RowsCoverBits ==
    (last.op = "calibrate" /\ last.result = "Ok")
        => settings.run_args.logrows >= settings.run_args.bits + 1

\* C27: a load_graph_witness that returns an error, with or without test
\* data, leaves the circuit's inputs, outputs and module_settings as they
\* were before the call.
C27_FailedLoadLeavesCircuit ==
    \A data \in Witnesses, test \in Tests, net \in Nets :
        LET r == load_graph_witness(Self, data, test, net)
        IN  r.result \in {"NetworkErr", "PrivateOnChain"} =>
                /\ r.self.inputs = inputs
                /\ r.self.outputs = outputs
                /\ r.self.module_settings = module_settings

(***************************************************************************)
(* Synthesis data-flow claims.                                             *)
(***************************************************************************)
\* C23: synthesize leaves the circuit's model, inputs, outputs, settings and
\* module_settings as they were, when it returns Ok and when it fails: the
\* constants are substituted into a clone of the model, so every synthesize
\* call on a circuit starts from the same state.
C23_SynthesizeLeavesCircuit ==
    [][last'.op = "synthesize"
        => /\ model' = model
           /\ inputs' = inputs
           /\ outputs' = outputs
           /\ settings' = settings
           /\ module_settings' = module_settings]_vars

\* a complete run that laid the model out on constants the parameter module
\* assigned, on a circuit whose model still holds its own constants
C23_Witness ==
    /\ last.op = "synthesize" /\ last.result = "Ok"
    /\ Made(last.events, "replace_consts")
    /\ requires_processing(settings.run_args.param_visibility)
    /\ last.value.laid.consts # get_all_consts(model)
    /\ get_all_consts(model) = ConstTensors(model.const_shapes)

\* C24: whenever the model has constants and synthesize reaches the model
\* layout, the layout runs on constants that are the flattened parameters as
\* the parameter-module layout left them, split into the model's constant
\* shapes in order (the values of the model's constants, in cells of the
\* parameter module when the parameters need processing), and on the inputs
\* as the input-module layout left them.
C24_LayoutOnModuleTensors ==
    (last.op = "synthesize" /\ last.value.laid.reached)
        => LET ra == settings.run_args
               laid == last.value.laid
               own == get_all_consts(model)
           IN  /\ Len(laid.inputs) = Len(inputs)
               /\ \A i \in 1..Len(inputs) :
                    laid.inputs[i] =
                        ValTensor(inputs[i],
                                  IF requires_processing(ra.input_visibility)
                                  THEN "input_module" ELSE "known")
               /\ model.const_shapes # << >> =>
                    /\ Len(laid.consts) = Len(model.const_shapes)
                    /\ \A i \in 1..Len(model.const_shapes) :
                         laid.consts[i] =
                             ValTensor(own[i],
                                       IF requires_processing(ra.param_visibility)
                                       THEN "param_module" ELSE "const")

\* a model layout on two constants of shapes [2] and [1] that the parameter
\* module assigned, and on an input the input module assigned
C24_Witness ==
    /\ last.op = "synthesize" /\ last.value.laid.reached
    /\ model.const_shapes = << <<2>>, <<1>> >>
    /\ requires_processing(settings.run_args.param_visibility)
    /\ requires_processing(settings.run_args.input_visibility)
    /\ last.value.laid.consts[1] =
           [dims |-> <<2>>, inner |-> <<11, 12>>, held |-> "param_module"]
    /\ last.value.laid.consts[2] =
           [dims |-> <<1>>, inner |-> <<21>>, held |-> "param_module"]
    /\ last.value.laid.inputs[1].held = "input_module"


============================================================================
